---- MODULE Spec2Model ----
(***************************************************************************)
(* Model of the beancount plugins of this repository:                      *)
(*   - noduplicates_extended: validate_no_duplicates_extended, Config,     *)
(*     custom_hash_function, hash_entries                                  *)
(*   - noduplicatesv2: custom_hash_function (fresh accumulator per call)   *)
(*   - auto_ratios: parse_ratio, is_split_transaction, is_eligible,        *)
(*     add_metadata, auto_ratios                                           *)
(*                                                                         *)
(* Text is a sequence of byte values.  The state of an xxhash.xxh3_64      *)
(* object is the sequence of bytes fed to it since its creation or last    *)
(* reset; hexdigest is a fixed-width lower-case hexadecimal rendering of a *)
(* hash of that sequence.  xxh3_64 is a third-party 64-bit hash; here it   *)
(* is a polynomial hash reduced to 16 bits (TLC integers are 32-bit), so   *)
(* a digest is 4 hexadecimal digits instead of 16.                         *)
(***************************************************************************)
EXTENDS Integers, Sequences, FiniteSets, TLC

\* ------------------------------------------------------------------ text

\* Python values that reach str(): None, str, int.
None == [t |-> "none", v |-> <<>>]
S(bytes) == [t |-> "str", v |-> bytes]
I(n) == [t |-> "int", v |-> <<n>>]

RECURSIVE Digits(_)
Digits(n) == IF n < 10 THEN <<48 + n>> ELSE Digits(n \div 10) \o <<48 + (n % 10)>>

\* str(x).encode()
Str(x) ==
  CASE x.t = "none" -> <<78, 111, 110, 101>>
    [] x.t = "str" -> x.v
    [] x.t = "int" -> Digits(x.v[1])

\* ------------------------------------------------------------- xxhash

HashMod == 16 * 16 * 16 * 16

RECURSIVE xxh3_64_fold(_, _, _)
xxh3_64_fold(bytes, i, acc) ==
  IF i > Len(bytes) THEN acc
  ELSE xxh3_64_fold(bytes, i + 1, (acc * 131 + bytes[i] + 1) % HashMod)

xxh3_64_intdigest(bytes) == xxh3_64_fold(bytes, 1, 11400)

HexDigit(d) == IF d < 10 THEN 48 + d ELSE 87 + d

\* xxh3_64(): a new, empty accumulator
xxh3_64 == <<>>

update(h, bytes) == h \o bytes

reset_keep(h) == h

reset(h) == <<>>

hexdigest(h) ==
  LET n == xxh3_64_intdigest(h)
  IN  << HexDigit(n \div (16 * 16 * 16)), HexDigit((n \div (16 * 16)) % 16),
         HexDigit((n \div 16) % 16), HexDigit(n % 16) >>

\* ------------------------------------------------------------- sorted()

RECURSIVE LexLess(_, _)
LexLess(a, b) ==
  IF b = <<>> THEN FALSE
  ELSE IF a = <<>> THEN TRUE
  ELSE IF a[1] # b[1] THEN a[1] < b[1]
  ELSE LexLess(Tail(a), Tail(b))

RECURSIVE Insert(_, _)
Insert(x, s) ==
  IF s = <<>> THEN <<x>>
  ELSE IF LexLess(x, s[1]) THEN <<x>> \o s
  ELSE <<s[1]>> \o Insert(x, Tail(s))

unsorted(s) == s

\* sorted(sub_hashes)
RECURSIVE sorted(_)
sorted(s) == IF s = <<>> THEN <<>> ELSE Insert(s[1], sorted(Tail(s)))

\* for subhash in <order>(sub_hashes): hash_obj.update(subhash.encode())
RECURSIVE update_all(_, _)
update_all(h, subs) ==
  IF subs = <<>> THEN h ELSE update_all(update(h, subs[1]), Tail(subs))

\* ------------------------------------------------- records (namedtuples)
\* A namedtuple is its type name and its fields in declaration order
\* (objtuple._fields zipped with objtuple).  A field value is a scalar
\* (kind "scalar", s), a list / frozenset (elems, in iteration order) or a
\* dict (items, in insertion order).  A collection element is a scalar or a
\* namedtuple.

NoTuple == [type |-> "", fields |-> <<>>]

FScalar(name, s) == [name |-> name, kind |-> "scalar", s |-> s, elems |-> <<>>, items |-> <<>>]
FList(name, elems) == [name |-> name, kind |-> "list", s |-> None, elems |-> elems, items |-> <<>>]
FSet(name, elems) == [name |-> name, kind |-> "frozenset", s |-> None, elems |-> elems, items |-> <<>>]
FDict(name, items) == [name |-> name, kind |-> "dict", s |-> None, elems |-> <<>>, items |-> items]

EScalar(s) == [isnt |-> FALSE, s |-> s, nt |-> NoTuple]
ETuple(nt) == [isnt |-> TRUE, s |-> None, nt |-> nt]

Item(k, v) == [k |-> k, v |-> v]

\* isinstance(attr_value, dict): the value has .items()
has_items(f) == f.kind = "dict"

\* isinstance(attr_value, (list, set, frozenset))
is_collection(f) == f.kind \in {"list", "frozenset"}

is_namedtuple_instance(element) == element.isnt

\* ------------------------------------- noduplicates_extended: hashing

\* attr_name == "diff_amount"
is_skipped(attr_name) == attr_name = "diff_amount"

include_every_key(k, config) == TRUE

\* k in config.include_meta
key_included(k, config) == \E j \in 1..Len(config.include_meta) : config.include_meta[j] = k

\* The loop over attr_value.items() with the shared subhash_obj.
RECURSIVE meta_sub_hashes(_, _, _)
meta_sub_hashes(subhash_obj, items, config) ==
  IF items = <<>> THEN <<>>
  ELSE IF key_included(items[1].k, config)
       THEN LET h1 == update(subhash_obj, Str(items[1].v))
            IN  <<hexdigest(h1)>> \o meta_sub_hashes(reset(h1), Tail(items), config)
       ELSE meta_sub_hashes(subhash_obj, Tail(items), config)

RECURSIVE custom_hash_function(_, _, _)
RECURSIVE hash_fields(_, _, _)
RECURSIVE element_sub_hashes(_, _, _)

\* The loop over the elements of a list / set / frozenset with the shared
\* subhash_obj, which a nested custom_hash_function call updates in place.
element_sub_hashes(subhash_obj, elems, config) ==
  IF elems = <<>> THEN [subs |-> <<>>, exc |-> FALSE]
  ELSE LET r == IF is_namedtuple_instance(elems[1])
                THEN custom_hash_function(subhash_obj, elems[1].nt, config)
                ELSE LET h1 == update(subhash_obj, Str(elems[1].s))
                     IN  [h |-> h1, ret |-> hexdigest(h1), exc |-> FALSE]
       IN  IF r.exc THEN [subs |-> <<>>, exc |-> TRUE]
           ELSE LET rest == element_sub_hashes(reset(r.h), Tail(elems), config)
                IN  [subs |-> <<r.ret>> \o rest.subs, exc |-> rest.exc]

\* The loop over zip(objtuple._fields, objtuple); exc: an exception was
\* raised (attr_value.items() on a meta that is not a dict).
hash_fields(hash_obj, fields, config) ==
  IF fields = <<>> THEN [h |-> hash_obj, exc |-> FALSE]
  ELSE LET f == fields[1] IN
    IF is_skipped(f.name) THEN hash_fields(hash_obj, Tail(fields), config)
    ELSE IF f.name = "meta" THEN
      IF ~has_items(f) THEN [h |-> hash_obj, exc |-> TRUE]
      ELSE hash_fields(update_all(hash_obj, sorted(meta_sub_hashes(xxh3_64, f.items, config))),
                       Tail(fields), config)
    ELSE IF is_collection(f) THEN
      LET r == element_sub_hashes(xxh3_64, f.elems, config)
      IN  IF r.exc THEN [h |-> hash_obj, exc |-> TRUE]
          ELSE hash_fields(update_all(hash_obj, sorted(r.subs)), Tail(fields), config)
    ELSE hash_fields(update(hash_obj, Str(f.s)), Tail(fields), config)

\* h: the bytes hash_obj holds on return; ret: the returned hexdigest.
custom_hash_function(hash_obj, objtuple, config) ==
  LET r == hash_fields(hash_obj, objtuple.fields, config)
  IN  [h |-> r.h, ret |-> hexdigest(r.h), exc |-> r.exc]

\* --------------------------------------------- noduplicatesv2: hashing
\* Every hash object is created where it is used: nothing is shared.

RECURSIVE meta_sub_hashes_v2(_, _)
meta_sub_hashes_v2(items, config_obj) ==
  IF items = <<>> THEN <<>>
  ELSE IF key_included(items[1].k, config_obj)
       THEN <<hexdigest(update(xxh3_64, Str(items[1].v)))>> \o meta_sub_hashes_v2(Tail(items), config_obj)
       ELSE meta_sub_hashes_v2(Tail(items), config_obj)

RECURSIVE custom_hash_function_v2(_, _)
RECURSIVE hash_fields_v2(_, _, _)
RECURSIVE element_sub_hashes_v2(_, _)

element_sub_hashes_v2(elems, config_obj) ==
  IF elems = <<>> THEN [subs |-> <<>>, exc |-> FALSE]
  ELSE LET r == IF elems[1].isnt
                THEN custom_hash_function_v2(elems[1].nt, config_obj)
                ELSE [ret |-> hexdigest(update(xxh3_64, Str(elems[1].s))), exc |-> FALSE]
           rest == element_sub_hashes_v2(Tail(elems), config_obj)
       IN  IF r.exc THEN [subs |-> <<>>, exc |-> TRUE]
           ELSE [subs |-> <<r.ret>> \o rest.subs, exc |-> rest.exc]

hash_fields_v2(hash_obj, fields, config_obj) ==
  IF fields = <<>> THEN [h |-> hash_obj, exc |-> FALSE]
  ELSE LET f == fields[1] IN
    IF f.name = "diff_amount" THEN hash_fields_v2(hash_obj, Tail(fields), config_obj)
    ELSE IF f.name = "meta" THEN
      IF ~has_items(f) THEN [h |-> hash_obj, exc |-> TRUE]
      ELSE hash_fields_v2(update_all(hash_obj, sorted(meta_sub_hashes_v2(f.items, config_obj))),
                          Tail(fields), config_obj)
    ELSE IF f.kind \in {"list", "frozenset"} THEN
      LET r == element_sub_hashes_v2(f.elems, config_obj)
      IN  IF r.exc THEN [h |-> hash_obj, exc |-> TRUE]
          ELSE hash_fields_v2(update_all(hash_obj, sorted(r.subs)), Tail(fields), config_obj)
    ELSE hash_fields_v2(update(hash_obj, Str(f.s)), Tail(fields), config_obj)

custom_hash_function_v2(objtuple, config_obj) ==
  LET r == hash_fields_v2(xxh3_64, objtuple.fields, config_obj)
  IN  [h |-> r.h, ret |-> hexdigest(r.h), exc |-> r.exc]

\* ------------------------------------------ beancount.core.data records

Amount(number, currency) == number \o <<32>> \o currency

Posting(account, units, meta) ==
  [type |-> "Posting",
   fields |-> << FScalar("account", S(account)), FScalar("units", S(units)),
                 FScalar("cost", None), FScalar("price", None), FScalar("flag", None),
                 meta >>]

Transaction(meta, date, payee, narration, tags, postings) ==
  [type |-> "Transaction",
   fields |-> << meta, FScalar("date", S(date)), FScalar("flag", S(<<42>>)),
                 FScalar("payee", payee), FScalar("narration", narration),
                 FSet("tags", tags), FSet("links", <<>>), FList("postings", postings) >>]

Price(meta, date, currency, amount) ==
  [type |-> "Price",
   fields |-> << meta, FScalar("date", S(date)), FScalar("currency", S(currency)),
                 FScalar("amount", S(amount)) >>]

Balance(meta, date, account, amount, diff_amount) ==
  [type |-> "Balance",
   fields |-> << meta, FScalar("date", S(date)), FScalar("account", S(account)),
                 FScalar("amount", S(amount)), FScalar("tolerance", None),
                 FScalar("diff_amount", diff_amount) >>]

\* ------------------------------------- noduplicates_extended: Config
\* A raw configuration string is described by the document it spells and by
\* its quoting: "double" (JSON), "single" (the ledger tool-chain's quoting,
\* plugin "..." "{'include_meta': ['paid_by']}") or "apostrophe" (JSON whose
\* double-quoted text contains a ' character).  doc.shape is what the text
\* spells: "object", "array", "null" or "malformed"; for an object, has_key
\* says whether it has "include_meta", val the JSON type of its value and
\* keys the strings of a list value.

RawConfig(quotes, shape, has_key, val, keys) ==
  [quotes |-> quotes, shape |-> shape, has_key |-> has_key, val |-> val, keys |-> keys]

\* raw_config.replace("'", '"'): single-quoted text becomes JSON; an
\* apostrophe inside a double-quoted string ends that string early.
replace_quotes(raw) ==
  IF raw.quotes = "apostrophe" THEN [raw EXCEPT !.quotes = "double", !.shape = "malformed"]
  ELSE [raw EXCEPT !.quotes = "double"]

\* json.loads: JSONDecodeError (a ValueError) on text that is not JSON.
json_loads(text) ==
  IF text.quotes # "double" \/ text.shape = "malformed"
  THEN [raised |-> "ValueError", doc |-> text]
  ELSE [raised |-> "none", doc |-> text]

include_meta_unchecked(config) == FALSE

\* "include_meta" in config and not isinstance(config["include_meta"], list)
include_meta_not_a_list(config) == config.has_key /\ config.val # "list"

\* Config.__post_init__: raised is the exception leaving the constructor.
Config(raw_config) ==
  LET loaded == json_loads(replace_quotes(raw_config))
      config == loaded.doc
  IN  IF loaded.raised # "none" THEN [raised |-> "ValueError", include_meta |-> <<>>]
      ELSE IF config.shape = "null" THEN [raised |-> "TypeError", include_meta |-> <<>>]
      ELSE IF config.shape = "array" THEN [raised |-> "AttributeError", include_meta |-> <<>>]
      ELSE IF include_meta_not_a_list(config) THEN [raised |-> "ValueError", include_meta |-> <<>>]
      ELSE [raised |-> "none",
            include_meta |-> IF config.has_key THEN config.keys ELSE <<>>]

\* ------------------------------------------------------------ inputs

paid_by == "paid_by"
split == "split"
lineno == "lineno"

d1 == <<49>>
acctA == <<65>>
acctB == <<66>>
txtA == <<97>>
txtB == <<98>>
txtAB == <<97, 98>>
USD == <<85>>

Meta(n) == FDict("meta", << Item(lineno, I(n)) >>)
MetaPaid(n, who) == FDict("meta", << Item(lineno, I(n)), Item(paid_by, S(who)), Item(split, I(50)) >>)
MetaNone == FScalar("meta", None)

P1 == Posting(acctA, Amount(<<49>>, USD), Meta(2))
P2 == Posting(acctB, Amount(<<45, 49>>, USD), Meta(3))

T1 == Transaction(Meta(1), d1, None, S(txtA), <<>>, <<ETuple(P1), ETuple(P2)>>)
T1again == Transaction(Meta(9), d1, None, S(txtA), <<>>, <<ETuple(P1), ETuple(P2)>>)
P1paid == Posting(acctA, Amount(<<49>>, USD), MetaPaid(8, txtA))
T2paid == Transaction(MetaPaid(5, txtB), d1, None, S(txtB), <<EScalar(S(txtA)), EScalar(S(txtB))>>,
                      <<ETuple(P1paid), ETuple(P2)>>)
TNoMeta == Transaction(Meta(4), d1, None, S(txtAB), <<>>,
                       <<ETuple(Posting(acctA, Amount(<<49>>, USD), MetaNone))>>)
Pr1 == Price(Meta(1), d1, USD, <<50>>)
Pr1again == Price(Meta(6), d1, USD, <<50>>)

EntryPool == {T1, T1again, T2paid, TNoMeta, Pr1, Pr1again}

RawConfigs ==
  { RawConfig("double", "object", FALSE, "none", <<>>),
    RawConfig("single", "object", TRUE, "list", <<paid_by, split>>),
    RawConfig("double", "object", TRUE, "string", <<>>),
    RawConfig("single", "object", TRUE, "number", <<>>),
    RawConfig("double", "array", FALSE, "none", <<>>),
    RawConfig("double", "null", FALSE, "none", <<>>),
    RawConfig("double", "malformed", FALSE, "none", <<>>),
    RawConfig("apostrophe", "object", TRUE, "list", <<paid_by>>) }

MaxEntries == 4

SeqsUpTo(S0, n) == UNION { [1..k -> S0] : k \in 0..n }

\* ------------------------------------------------------------- state

VARIABLES
  raw_config,            \* validate_no_duplicates_extended: the configuration string
  entries,               \* validate_no_duplicates_extended: the directives
  pc,                    \* "start", "loop", "returned" or "raised"
  config,                \* the Config object
  idx,                   \* hash_entries: position of the for loop in entries
  entry_hash_dict,       \* hash_entries: {hash, entry}: digest -> position of the entry stored
  errors,                \* the error list
  num_legal_duplicates,  \* hash_entries
  hash_obj,              \* hash_entries: the bytes held by the shared xxh3_64 object
  hashes,                \* history: the hash_ computed for each entry so far
  raised,                \* the exception that left the plugin, or "none"
  objtuple_a,            \* custom_hash_function: a first namedtuple
  objtuple_b,            \* custom_hash_function: a second namedtuple
  hconfig,               \* custom_hash_function: the config of both calls
  result_a,              \* what the calls on objtuple_a gave
  result_b,              \* what the calls on objtuple_b gave
  hpc,                   \* "a", "b", "done" (or "idle")
  r_raw_config,          \* auto_ratios: the configuration string
  r_entries,             \* auto_ratios: the directives (postings' meta are updated in place)
  r_config,              \* auto_ratios: the Config object
  ratios,                \* auto_ratios: the Ratio objects parsed so far
  r_idx,                 \* auto_ratios: position of the list comprehension in entries
  augmented_entries,     \* auto_ratios: positions of the entries returned
  r_errors,              \* auto_ratios: the error list
  r_pc                   \* "start", "loop", "returned", "raised" (or "idle")

passvars == << raw_config, entries, pc, config, idx, entry_hash_dict, errors,
               num_legal_duplicates, hash_obj, hashes, raised >>
hashvars == << objtuple_a, objtuple_b, hconfig, result_a, result_b, hpc >>
ratiovars == << r_raw_config, r_entries, r_config, ratios, r_idx, augmented_entries,
                r_errors, r_pc >>
vars == << passvars, hashvars, ratiovars >>

NoResult == [ext |-> [h |-> <<>>, ret |-> <<>>, exc |-> FALSE],
             v2 |-> [h |-> <<>>, ret |-> <<>>, exc |-> FALSE]]

PassIdle ==
  /\ raw_config = RawConfig("double", "object", FALSE, "none", <<>>)
  /\ entries = <<>>
  /\ pc = "idle"
  /\ config = [include_meta |-> <<>>]
  /\ idx = 1
  /\ entry_hash_dict = {}
  /\ errors = <<>>
  /\ num_legal_duplicates = 0
  /\ hash_obj = <<>>
  /\ hashes = <<>>
  /\ raised = "none"

HashIdle ==
  /\ objtuple_a = NoTuple
  /\ objtuple_b = NoTuple
  /\ hconfig = [include_meta |-> <<>>]
  /\ result_a = NoResult
  /\ result_b = NoResult
  /\ hpc = "idle"

RatiosIdle ==
  /\ r_raw_config = "idle"
  /\ r_entries = <<>>
  /\ r_config = [shared_accounts |-> <<>>, partner_account |-> "", ratio_metadata_key |-> ""]
  /\ ratios = <<>>
  /\ r_idx = 1
  /\ augmented_entries = <<>>
  /\ r_errors = <<>>
  /\ r_pc = "idle"

ConfigError == [type |-> "ConfigError", entry |-> 0, other |-> 0]
\* CompareError(entry.meta, "Duplicate entry: {} == {}".format(entry, other_entry), entry)
CompareError(entry, other_entry) == [type |-> "CompareError", entry |-> entry, other |-> other_entry]

isinstance_Price_never(entry) == FALSE

\* isinstance(entry, data.Price)
isinstance_Price(entry) == entry.type = "Price"

in_dict(d, hash_) == \E e \in d : e.hash = hash_
dict_get(d, hash_) == (CHOOSE e \in d : e.hash = hash_).entry

dict_setdefault(d, hash_, entry) ==
  IF in_dict(d, hash_) THEN d ELSE d \cup {[hash |-> hash_, entry |-> entry]}

\* entry_hash_dict[hash_] = entry
dict_set(d, hash_, entry) ==
  {e \in d : e.hash # hash_} \cup {[hash |-> hash_, entry |-> entry]}

Init ==
  /\ raw_config \in RawConfigs
  /\ entries \in SeqsUpTo(EntryPool, MaxEntries)
  /\ pc = "start"
  /\ config = [include_meta |-> <<>>]
  /\ idx = 1
  /\ entry_hash_dict = {}
  /\ errors = <<>>
  /\ num_legal_duplicates = 0
  /\ hash_obj = <<>>
  /\ hashes = <<>>
  /\ raised = "none"
  /\ HashIdle
  /\ RatiosIdle

\* validate_no_duplicates_extended up to the call of hash_entries, and the
\* first statements of hash_entries.
Configure ==
  /\ pc = "start"
  /\ LET c == Config(raw_config) IN
       IF c.raised = "ValueError"
       THEN /\ errors' = <<ConfigError>>
            /\ pc' = "returned"
            /\ UNCHANGED << config, raised, hash_obj >>
       ELSE IF c.raised # "none"
       THEN /\ raised' = c.raised
            /\ pc' = "raised"
            /\ UNCHANGED << config, errors, hash_obj >>
       ELSE /\ config' = [include_meta |-> c.include_meta]
            /\ errors' = <<>>
            /\ hash_obj' = xxh3_64
            /\ pc' = "loop"
            /\ UNCHANGED raised
  /\ UNCHANGED << raw_config, entries, idx, entry_hash_dict, num_legal_duplicates, hashes >>
  /\ UNCHANGED << hashvars, ratiovars >>

\* One iteration of the for loop of hash_entries.
HashEntry ==
  /\ pc = "loop"
  /\ idx <= Len(entries)
  /\ LET entry == entries[idx]
         r == custom_hash_function(hash_obj, entry, config)
         hash_ == r.ret
     IN  IF r.exc
         THEN /\ raised' = "AttributeError"
              /\ pc' = "raised"
              /\ hash_obj' = r.h
              /\ UNCHANGED << idx, entry_hash_dict, errors, num_legal_duplicates, hashes >>
         ELSE /\ hashes' = Append(hashes, hash_)
              /\ IF in_dict(entry_hash_dict, hash_)
                 THEN IF isinstance_Price(entry)
                      THEN /\ num_legal_duplicates' = num_legal_duplicates + 1
                           /\ UNCHANGED errors
                      ELSE /\ errors' = Append(errors, CompareError(idx, dict_get(entry_hash_dict, hash_)))
                           /\ UNCHANGED num_legal_duplicates
                 ELSE UNCHANGED << errors, num_legal_duplicates >>
              /\ entry_hash_dict' = dict_set(entry_hash_dict, hash_, idx)
              /\ hash_obj' = reset(r.h)
              /\ idx' = idx + 1
              /\ UNCHANGED << pc, raised >>
  /\ UNCHANGED << raw_config, entries, config >>
  /\ UNCHANGED << hashvars, ratiovars >>

\* The end of hash_entries (its assertion) and the return of the plugin.
Return ==
  /\ pc = "loop"
  /\ idx > Len(entries)
  /\ IF errors = <<>> /\ Cardinality(entry_hash_dict) + num_legal_duplicates # Len(entries)
     THEN raised' = "AssertionError" /\ pc' = "raised"
     ELSE pc' = "returned" /\ UNCHANGED raised
  /\ UNCHANGED << raw_config, entries, config, idx, entry_hash_dict, errors,
                  num_legal_duplicates, hash_obj, hashes >>
  /\ UNCHANGED << hashvars, ratiovars >>

Next == Configure \/ HashEntry \/ Return

Spec == Init /\ [][Next]_vars

\* ---------------------------------------- custom_hash_function alone
\* Two namedtuples and a config are drawn from bounded sets; each is hashed
\* by noduplicates_extended's custom_hash_function with a new xxh3_64
\* object, as hash_entries does for its first entry, and by
\* noduplicatesv2's.

MaxPostings == 2

PostingElems == { ETuple(P1), ETuple(P2), ETuple(P1paid) }

TxnsByPostings ==
  { Transaction(Meta(1), d1, None, S(txtA), <<>>, ps) : ps \in SeqsUpTo(PostingElems, MaxPostings) }

TxnsByText ==
  { Transaction(Meta(1), d1, p, n, <<>>, <<>>) :
      p \in {None, S(<<>>), S(txtA), S(txtAB)}, n \in {S(<<>>), S(txtA), S(txtB), S(txtAB)} }

TxnsByTags ==
  { Transaction(Meta(1), d1, None, S(txtA), tags, <<ETuple(P2), ETuple(P1)>>) :
      tags \in { <<EScalar(S(txtA)), EScalar(S(txtB))>>, <<EScalar(S(txtB)), EScalar(S(txtA))>>,
                 <<EScalar(S(txtA))>> } }

TxnsByMeta ==
  { Transaction(m, d1, None, S(txtB), <<>>, <<ETuple(P1)>>) :
      m \in { Meta(1), Meta(2), MetaPaid(1, txtA), MetaPaid(2, txtA), MetaPaid(1, txtB),
              FDict("meta", << Item(paid_by, S(txtA)), Item(lineno, I(1)) >>), MetaNone } }

Balances ==
  { Balance(Meta(1), d1, acctA, amt, diff) :
      amt \in {<<49>>, <<50>>}, diff \in {None, S(<<49>>), S(<<50>>)} }

\* A namedtuple type with collections at two depths.
Member(id, labels) ==
  [type |-> "Member", fields |-> << FScalar("id", I(id)), FSet("labels", labels) >>]
Group(members) ==
  [type |-> "Group", fields |-> << FScalar("name", S(txtA)), FSet("members", members) >>]

lA == EScalar(S(txtA))
lB == EScalar(S(txtB))

Groups ==
  { Group(<<ETuple(Member(1, <<lA, lB>>)), ETuple(Member(2, <<lB>>))>>),
    Group(<<ETuple(Member(2, <<lB>>)), ETuple(Member(1, <<lA, lB>>))>>),
    Group(<<ETuple(Member(2, <<lB>>)), ETuple(Member(1, <<lB, lA>>))>>),
    Group(<<ETuple(Member(1, <<lA>>)), ETuple(Member(2, <<lB, lB>>))>>) }

HashPool == TxnsByPostings \cup TxnsByText \cup TxnsByTags \cup TxnsByMeta \cup Balances
              \cup Groups \cup {Pr1, Pr1again}

HashConfigs == { [include_meta |-> <<>>], [include_meta |-> <<paid_by, split>>] }

HashInit ==
  /\ PassIdle
  /\ RatiosIdle
  /\ objtuple_a \in HashPool
  /\ objtuple_b \in HashPool
  /\ hconfig \in HashConfigs
  /\ result_a = NoResult
  /\ result_b = NoResult
  /\ hpc = "a"

Fingerprints(objtuple) ==
  [ext |-> custom_hash_function(xxh3_64, objtuple, hconfig),
   v2 |-> custom_hash_function_v2(objtuple, hconfig)]

FingerprintA ==
  /\ hpc = "a"
  /\ result_a' = Fingerprints(objtuple_a)
  /\ hpc' = "b"
  /\ UNCHANGED << objtuple_a, objtuple_b, hconfig, result_b >>
  /\ UNCHANGED << passvars, ratiovars >>

FingerprintB ==
  /\ hpc = "b"
  /\ result_b' = Fingerprints(objtuple_b)
  /\ hpc' = "done"
  /\ UNCHANGED << objtuple_a, objtuple_b, hconfig, result_a >>
  /\ UNCHANGED << passvars, ratiovars >>

HashNext == FingerprintA \/ FingerprintB

SpecHash == HashInit /\ [][HashNext]_vars

\* ------------------------------------------------------- auto_ratios
\* A directive is a Custom (type ctype, values: <<[v, dtype], ...>>) or a
\* Transaction (postings: <<[account, meta], ...>>, meta a sequence of items
\* or NoDict for None).  Dates are day numbers.

Today == 3

DEFAULT_RATIO_KEY == "ratio"
RATIO_DIRECTIVE_TYPE == "Ratio"

Joint == "Assets:Joint"
Partner == "Assets:Partner"
Food == "Expenses:Food"

Custom(date, ctype, values) ==
  [kind |-> "Custom", date |-> date, ctype |-> ctype, values |-> values, postings |-> <<>>]
RatioDirective(date, value) == Custom(date, RATIO_DIRECTIVE_TYPE, << [v |-> value, dtype |-> "Decimal"] >>)
RatioDirectiveUntil(date, value, end) ==
  Custom(date, RATIO_DIRECTIVE_TYPE, << [v |-> value, dtype |-> "Decimal"], [v |-> end, dtype |-> "str"] >>)
Txn(date, accounts) ==
  [kind |-> "Transaction", date |-> date, ctype |-> "", values |-> <<>>,
   postings |-> [k \in 1..Len(accounts) |-> [account |-> accounts[k], meta |-> <<>>]]]

\* The configuration strings: what json.loads gives for each, or "malformed".
RatioRawConfigs ==
  { [shape |-> "object", has_accounts |-> TRUE, shared_accounts |-> <<Joint>>,
     partner_account |-> Partner, ratio_metadata_key |-> "none"],
    [shape |-> "object", has_accounts |-> TRUE, shared_accounts |-> <<Joint>>,
     partner_account |-> Partner, ratio_metadata_key |-> "share"],
    [shape |-> "object", has_accounts |-> TRUE, shared_accounts |-> <<Joint>>,
     partner_account |-> Partner, ratio_metadata_key |-> "Share"],
    [shape |-> "object", has_accounts |-> TRUE, shared_accounts |-> <<"joint">>,
     partner_account |-> Partner, ratio_metadata_key |-> "none"],
    [shape |-> "object", has_accounts |-> FALSE, shared_accounts |-> <<>>,
     partner_account |-> "", ratio_metadata_key |-> "none"],
    [shape |-> "malformed", has_accounts |-> FALSE, shared_accounts |-> <<>>,
     partner_account |-> "", ratio_metadata_key |-> "none"] }

\* bc_account.is_valid
account_is_valid(account) == account \in {Joint, Partner, Food}

\* RE_META_KEY.match
meta_key_is_valid(key) == key \in {"ratio", "share"}

\* Config.__post_init__ of auto_ratios
RatioConfig(raw) ==
  LET bad(exc) == [raised |-> exc, shared_accounts |-> <<>>, partner_account |-> "",
                   ratio_metadata_key |-> DEFAULT_RATIO_KEY]
  IN  IF raw.shape = "malformed" THEN bad("ValueError")
      ELSE IF ~raw.has_accounts THEN bad("KeyError")
      ELSE IF \/ \E k \in 1..Len(raw.shared_accounts) : ~account_is_valid(raw.shared_accounts[k])
              \/ ~account_is_valid(raw.partner_account)
           THEN bad("ValueError")
      ELSE IF raw.ratio_metadata_key # "none" /\ ~meta_key_is_valid(raw.ratio_metadata_key)
           THEN bad("ValueError")
      ELSE [raised |-> "none", shared_accounts |-> raw.shared_accounts,
            partner_account |-> raw.partner_account,
            ratio_metadata_key |-> IF raw.ratio_metadata_key # "none"
                                   THEN raw.ratio_metadata_key ELSE DEFAULT_RATIO_KEY]

\* parse_ratio: a Ratio object, or ValueError
parse_ratio(entry) ==
  IF Len(entry.values) < 1 \/ Len(entry.values) > 2
  THEN [raised |-> "ValueError", value |-> 0, start_date |-> 0, end_date |-> 0]
  ELSE IF entry.values[1].dtype # "Decimal"
  THEN [raised |-> "ValueError", value |-> 0, start_date |-> 0, end_date |-> 0]
  ELSE [raised |-> "none", value |-> entry.values[1].v, start_date |-> entry.date,
        end_date |-> IF Len(entry.values) > 1 THEN entry.values[2].v ELSE Today]

in_list(x, list) == \E k \in 1..Len(list) : list[k] = x

\* bc_getters.get_entry_accounts
get_entry_accounts(entry) == { entry.postings[k].account : k \in 1..Len(entry.postings) }

is_split_transaction(entry, cfg) ==
  /\ \E account \in get_entry_accounts(entry) : in_list(account, cfg.shared_accounts)
  /\ \E account \in get_entry_accounts(entry) : account = cfg.partner_account

is_eligible(posting, cfg) ==
  ~in_list(posting.account, cfg.shared_accounts \o <<cfg.partner_account>>)

\* for ratio in ratios: if ratio.start_date <= entry.date <= ratio.end_date: ...; break
includes(ratio, date) == ratio.start_date <= date /\ date <= ratio.end_date

RECURSIVE first_match(_, _, _)
first_match(rs, k, date) ==
  IF k > Len(rs) THEN 0
  ELSE IF includes(rs[k], date) THEN k
  ELSE first_match(rs, k + 1, date)

\* posting.meta[key] = value
meta_set(meta, key, value) ==
  IF \E k \in 1..Len(meta) : meta[k].k = key
  THEN [k \in 1..Len(meta) |-> IF meta[k].k = key THEN [k |-> key, v |-> value] ELSE meta[k]]
  ELSE Append(meta, [k |-> key, v |-> value])

\* add_metadata on a Transaction: the entry with its postings' meta updated
annotate(entry, cfg, rs) ==
  IF ~is_split_transaction(entry, cfg) THEN entry
  ELSE LET m == first_match(rs, 1, entry.date) IN
       [entry EXCEPT !.postings = [k \in 1..Len(entry.postings) |->
          IF is_eligible(entry.postings[k], cfg) /\ m # 0
          THEN [entry.postings[k] EXCEPT !.meta = meta_set(@, cfg.ratio_metadata_key, rs[m].value)]
          ELSE entry.postings[k]]]

RatioEntryPool ==
  { RatioDirective(1, 5),
    RatioDirectiveUntil(1, 8, 2),
    RatioDirective(3, 6),
    Custom(2, RATIO_DIRECTIVE_TYPE, <<>>),
    Custom(2, "Budget", <<>>),
    Txn(1, <<Joint, Partner, Food>>),
    Txn(2, <<Food, Joint, Partner>>),
    Txn(2, <<Joint, Food>>) }

MaxRatioEntries == 3

RatiosInit ==
  /\ PassIdle
  /\ HashIdle
  /\ r_raw_config \in RatioRawConfigs
  /\ r_entries \in SeqsUpTo(RatioEntryPool, MaxRatioEntries)
  /\ r_config = [shared_accounts |-> <<>>, partner_account |-> "", ratio_metadata_key |-> ""]
  /\ ratios = <<>>
  /\ r_idx = 1
  /\ augmented_entries = <<>>
  /\ r_errors = <<>>
  /\ r_pc = "start"

RatioConfigError == [type |-> "ConfigError"]

\* auto_ratios up to config = Config(raw_config)
RatiosConfigure ==
  /\ r_pc = "start"
  /\ LET c == RatioConfig(r_raw_config) IN
       IF c.raised = "ValueError"
       THEN /\ r_errors' = <<RatioConfigError>>
            /\ r_pc' = "returned"
            /\ UNCHANGED r_config
       ELSE IF c.raised # "none"
       THEN /\ r_pc' = "raised"
            /\ UNCHANGED << r_config, r_errors >>
       ELSE /\ r_config' = [shared_accounts |-> c.shared_accounts,
                            partner_account |-> c.partner_account,
                            ratio_metadata_key |-> c.ratio_metadata_key]
            /\ r_pc' = "loop"
            /\ UNCHANGED r_errors
  /\ UNCHANGED << r_raw_config, r_entries, ratios, r_idx, augmented_entries >>
  /\ UNCHANGED << passvars, hashvars >>

\* add_metadata(entry, config, ratios) for the next entry of the comprehension
AddMetadata ==
  /\ r_pc = "loop"
  /\ r_idx <= Len(r_entries)
  /\ LET entry == r_entries[r_idx] IN
       IF entry.kind = "Custom" /\ entry.ctype = RATIO_DIRECTIVE_TYPE
       THEN LET r == parse_ratio(entry) IN
              IF r.raised # "none"
              THEN /\ r_errors' = <<RatioConfigError>>
                   /\ r_pc' = "returned"
                   /\ UNCHANGED << ratios, r_idx, r_entries >>
              ELSE /\ ratios' = Append(ratios, [value |-> r.value, start_date |-> r.start_date,
                                                end_date |-> r.end_date])
                   /\ r_idx' = r_idx + 1
                   /\ UNCHANGED << r_errors, r_pc, r_entries >>
       ELSE /\ r_entries' = IF entry.kind = "Transaction"
                            THEN [r_entries EXCEPT ![r_idx] = annotate(entry, r_config, ratios)]
                            ELSE r_entries
            /\ r_idx' = r_idx + 1
            /\ UNCHANGED << ratios, r_errors, r_pc >>
  /\ UNCHANGED << r_raw_config, r_config, augmented_entries >>
  /\ UNCHANGED << passvars, hashvars >>

\* augmented_entries = [...] once the comprehension is over, and the return
RatiosReturn ==
  /\ r_pc = "loop"
  /\ r_idx > Len(r_entries)
  /\ augmented_entries' = [k \in 1..Len(r_entries) |-> k]
  /\ r_pc' = "returned"
  /\ UNCHANGED << r_raw_config, r_entries, r_config, ratios, r_idx, r_errors >>
  /\ UNCHANGED << passvars, hashvars >>

RatiosNext == RatiosConfigure \/ AddMetadata \/ RatiosReturn

SpecRatios == RatiosInit /\ [][RatiosNext]_vars


\* ================================================================ claims
\* ------------------------------------------------- under Spec (the pass)

\* hash_entries is running or has returned (the configuration was accepted).
InHashEntries == pc = "loop" \/ (pc = "returned" /\ Config(raw_config).raised = "none")

\* The digest of entries[j] computed on its own, with a new accumulator.
DigestOf(j, cfg) == custom_hash_function(xxh3_64, entries[j], cfg).ret

\* Positions j <= n, in input order, of the records that are not a Price and
\* whose digest is the digest of an earlier record.
RECURSIVE DuplicatePositions(_, _)
DuplicatePositions(n, cfg) ==
  IF n = 0 THEN <<>>
  ELSE LET before == DuplicatePositions(n - 1, cfg)
       IN  IF entries[n].type # "Price" /\ \E k \in 1..(n - 1) : DigestOf(k, cfg) = DigestOf(n, cfg)
           THEN Append(before, n) ELSE before

ErrorPositions == [k \in 1..Len(errors) |-> errors[k].entry]

\* C1: after any prefix of the input, the error list of hash_entries holds
\* exactly one CompareError per record that is not a Price and whose digest
\* repeats the digest of an earlier record, nothing for a repeated Price,
\* nothing else, in input order.
C1_ErrorsAreTheDuplicates ==
  InHashEntries =>
    /\ ErrorPositions = DuplicatePositions(idx - 1, config)
    /\ \A k \in 1..Len(errors) : errors[k].type = "CompareError"

\* A Price repeated and another record repeated, in one run that returned.
C1_Witness ==
  /\ pc = "returned"
  /\ Len(errors) >= 1
  /\ num_legal_duplicates >= 1

ProcessedWith(hash_) == { j \in 1..Len(hashes) : hashes[j] = hash_ }
Min(S0) == CHOOSE x \in S0 : \A y \in S0 : x <= y
Max(S0) == CHOOSE x \in S0 : \A y \in S0 : x >= y

\* C2 as stated: the index maps each digest to the first record, in input
\* order, that produced it.
C2_FirstWins ==
  InHashEntries =>
    \A e \in entry_hash_dict : e.entry = Min(ProcessedWith(e.hash))

\* C2 as amended: the index holds exactly the digests computed so far, one
\* entry each, and maps each digest to the last record, in input order, that
\* produced it.
C2_LastWins ==
  InHashEntries =>
    /\ { e.hash : e \in entry_hash_dict } = { hashes[j] : j \in 1..Len(hashes) }
    /\ \A e \in entry_hash_dict : e.entry = Max(ProcessedWith(e.hash))
    /\ \A e, f \in entry_hash_dict : e.hash = f.hash => e = f

\* A digest produced by a Price twice and a digest produced by another record
\* twice: the index holds a later record for each.
C2_Witness ==
  /\ pc = "returned"
  /\ \E e \in entry_hash_dict :
       entries[e.entry].type = "Price" /\ Cardinality(ProcessedWith(e.hash)) >= 2
  /\ \E e \in entry_hash_dict :
       entries[e.entry].type # "Price" /\ Cardinality(ProcessedWith(e.hash)) >= 2

\* The configuration is an object whose include_meta is not a list.
IncludeMetaNotASequence ==
  /\ raw_config.quotes # "apostrophe"
  /\ raw_config.shape = "object"
  /\ raw_config.has_key
  /\ raw_config.val # "list"

NoMeta == [include_meta |-> <<>>]

\* C3 as stated: one ConfigError, followed by the CompareErrors of a
\* detection run with no metadata included.
C3_DetectionStillRuns ==
  (pc = "returned" /\ IncludeMetaNotASequence) =>
    /\ Len(errors) >= 1
    /\ errors[1] = ConfigError
    /\ Tail(ErrorPositions) = DuplicatePositions(Len(entries), NoMeta)

\* C3 as amended: one ConfigError and nothing else; no record was hashed.
C3_OnlyConfigError ==
  IncludeMetaNotASequence =>
    /\ pc \in {"start", "returned"}
    /\ pc = "returned" => errors = <<ConfigError>>
    /\ hashes = <<>>
    /\ entry_hash_dict = {}

\* include_meta is not a list, the plugin returned, and the records hold a
\* duplicate that detection with no metadata would report.
C3_Witness ==
  /\ pc = "returned"
  /\ IncludeMetaNotASequence
  /\ Len(entries) >= 2
  /\ DuplicatePositions(Len(entries), NoMeta) # <<>>

\* C4: no exception leaves validate_no_duplicates_extended.
C4_NoExceptionEscapes == pc # "raised"

\* C8: the shared accumulators never leak: hash_obj is empty when a record's
\* fingerprint starts, and the digest computed for every record in the pass
\* is the digest computed for it alone with a new accumulator, and the digest
\* noduplicatesv2 computes with a new accumulator for every element and
\* metadata value.
C8_NoLeakBetweenFingerprints ==
  /\ pc = "loop" => hash_obj = <<>>
  /\ \A j \in 1..Len(hashes) :
       /\ hashes[j] = custom_hash_function(xxh3_64, entries[j], config).ret
       /\ hashes[j] = custom_hash_function_v2(entries[j], config).ret

\* Three records hashed one after the other, the last a transaction with two
\* postings and two included metadata values.
C8_Witness ==
  /\ Len(hashes) >= 3
  /\ entries[3] = T2paid
  /\ entries[2].type = "Transaction"
  /\ config.include_meta = <<paid_by, split>>

\* --------------------------------- under SpecHash (custom_hash_function)

Whitelisted(k, cfg) == \E j \in 1..Len(cfg.include_meta) : cfg.include_meta[j] = k

RECURSIVE KeepWhitelisted(_, _)
KeepWhitelisted(items, cfg) ==
  IF items = <<>> THEN <<>>
  ELSE IF Whitelisted(items[1].k, cfg)
       THEN <<items[1]>> \o KeepWhitelisted(Tail(items), cfg)
       ELSE KeepWhitelisted(Tail(items), cfg)

\* A namedtuple without what the claim calls insignificant: the value of
\* diff_amount and the metadata items whose key is not in include_meta, at
\* every depth.
RECURSIVE Significant(_, _)
Significant(nt, cfg) ==
  [type |-> nt.type,
   fields |-> [i \in 1..Len(nt.fields) |->
     LET f == nt.fields[i] IN
       IF f.name = "diff_amount" THEN FScalar(f.name, None)
       ELSE IF f.name = "meta" /\ f.kind = "dict" THEN FDict(f.name, KeepWhitelisted(f.items, cfg))
       ELSE [f EXCEPT !.elems = [k \in 1..Len(f.elems) |->
               IF f.elems[k].isnt THEN ETuple(Significant(f.elems[k].nt, cfg))
               ELSE f.elems[k]]]]]

SameDigest(r, s) == r.ret = s.ret /\ r.exc = s.exc

\* C5: two records that differ only in diff_amount and in metadata under
\* keys outside include_meta, at any depth, get the same digest, from
\* noduplicates_extended and from noduplicatesv2.
C5_IgnoredPartsDoNotCount ==
  (hpc = "done" /\ Significant(objtuple_a, hconfig) = Significant(objtuple_b, hconfig)) =>
    /\ SameDigest(result_a.ext, result_b.ext)
    /\ SameDigest(result_a.v2, result_b.v2)

\* Two transactions with postings whose metadata differ under a key outside
\* include_meta and agree under the keys in it, under a config that includes
\* some metadata.
C5_Witness ==
  /\ hpc = "done"
  /\ objtuple_a.type = "Transaction"
  /\ objtuple_b.type = "Transaction"
  /\ objtuple_a.fields[1] # objtuple_b.fields[1]
  /\ objtuple_a.fields[1].kind = "dict"
  /\ KeepWhitelisted(objtuple_a.fields[1].items, hconfig) # <<>>
  /\ objtuple_a.fields[8].elems # <<>>
  /\ Significant(objtuple_a, hconfig) = Significant(objtuple_b, hconfig)

\* b is a with the elements of its collections of the given kinds permuted,
\* at any depth, and nothing else changed.
RECURSIVE Permuted(_, _, _)
Permuted(a, b, kinds) ==
  /\ a.type = b.type
  /\ Len(a.fields) = Len(b.fields)
  /\ \A i \in 1..Len(a.fields) :
       LET f == a.fields[i]
           g == b.fields[i]
           same(e1, e2) == /\ e1.isnt = e2.isnt
                           /\ e1.s = e2.s
                           /\ e1.isnt => Permuted(e1.nt, e2.nt, kinds)
       IN  /\ f.name = g.name /\ f.kind = g.kind /\ f.s = g.s /\ f.items = g.items
           /\ Len(f.elems) = Len(g.elems)
           /\ IF f.kind \in kinds
              THEN \E p \in Permutations(1..Len(f.elems)) :
                     \A k \in 1..Len(f.elems) : same(f.elems[k], g.elems[p[k]])
              ELSE \A k \in 1..Len(f.elems) : same(f.elems[k], g.elems[k])

\* C6: permuting the elements of unordered collections (frozenset fields), at
\* any depth, leaves the digest unchanged.
C6_SetOrderDoesNotCount ==
  (hpc = "done" /\ Permuted(objtuple_a, objtuple_b, {"frozenset"})) =>
    /\ SameDigest(result_a.ext, result_b.ext)
    /\ SameDigest(result_a.v2, result_b.v2)

\* Two Groups that differ in the order of a nested frozenset.
C6_Witness ==
  /\ hpc = "done"
  /\ objtuple_a # objtuple_b
  /\ objtuple_a.type = "Group"
  /\ objtuple_b.type = "Group"
  /\ objtuple_a.fields[2].elems[1] # objtuple_b.fields[2].elems[1]
  /\ objtuple_a.fields[2].elems[2] # objtuple_b.fields[2].elems[2]
  /\ Permuted(objtuple_a, objtuple_b, {"frozenset"})

\* C7 as stated: permuting the elements of a list field (the postings) into a
\* different list changes the digest.
C7_ListOrderCounts ==
  (hpc = "done" /\ objtuple_a # objtuple_b /\ Permuted(objtuple_a, objtuple_b, {"list"})) =>
    result_a.ext.ret # result_b.ext.ret

\* C7 as amended: permuting the elements of a list field leaves the digest
\* unchanged.
C7_ListOrderDoesNotCount ==
  (hpc = "done" /\ Permuted(objtuple_a, objtuple_b, {"list"})) =>
    SameDigest(result_a.ext, result_b.ext)

\* Two transactions with the same two distinct postings in opposite orders.
C7_Witness ==
  /\ hpc = "done"
  /\ objtuple_a.type = "Transaction"
  /\ objtuple_b.type = "Transaction"
  /\ Len(objtuple_a.fields[8].elems) = 2
  /\ objtuple_a.fields[8].elems[1] # objtuple_a.fields[8].elems[2]
  /\ objtuple_b.fields[8].elems = << objtuple_a.fields[8].elems[2], objtuple_a.fields[8].elems[1] >>
  /\ Permuted(objtuple_a, objtuple_b, {"list"})

\* Some scalar field that is hashed has different text in a and in b.
DifferInHashedScalar(a, b) ==
  /\ a.type = b.type
  /\ \E i \in 1..Len(a.fields) :
       /\ a.fields[i].kind = "scalar" /\ b.fields[i].kind = "scalar"
       /\ a.fields[i].name \notin {"meta", "diff_amount"}
       /\ Str(a.fields[i].s) # Str(b.fields[i].s)

\* C10: two records of one kind that differ in the text of a hashed scalar
\* field are never fed to the accumulator as the same bytes.
C10_DistinctTextDistinctBytes ==
  (hpc = "done" /\ ~result_a.ext.exc /\ ~result_b.ext.exc
     /\ DifferInHashedScalar(objtuple_a, objtuple_b)) =>
    result_a.ext.h # result_b.ext.h

\* ------------------------------------------------ under SpecRatios

\* Entry j is a Ratio directive that parse_ratio accepts and whose range
\* includes the date.
RatioIncluding(j, date) ==
  /\ r_entries[j].kind = "Custom"
  /\ r_entries[j].ctype = "Ratio"
  /\ Len(r_entries[j].values) \in {1, 2}
  /\ r_entries[j].date <= date
  /\ date <= (IF Len(r_entries[j].values) = 2 THEN r_entries[j].values[2].v ELSE Today)

MetaValue(meta, key) ==
  IF \E k \in 1..Len(meta) : meta[k].k = key
  THEN (CHOOSE it \in { meta[k] : k \in 1..Len(meta) } : it.k = key).v
  ELSE 0

\* C9: when auto_ratios returns without error, every eligible posting of
\* every split transaction whose date is in the range of some Ratio directive
\* of the sequence holds, under the ratio key, the value of the first Ratio
\* directive in entry order whose range includes the date.
C9_FirstIncludingRatioAssigned ==
  (r_pc = "returned" /\ r_errors = <<>>) =>
    \A i \in 1..Len(r_entries) :
      LET entry == r_entries[i]
          including == { j \in 1..Len(r_entries) : RatioIncluding(j, entry.date) }
      IN  (/\ entry.kind = "Transaction"
           /\ Joint \in { entry.postings[k].account : k \in 1..Len(entry.postings) }
           /\ Partner \in { entry.postings[k].account : k \in 1..Len(entry.postings) }
           /\ including # {}) =>
            \A k \in 1..Len(entry.postings) :
              entry.postings[k].account \notin {Joint, Partner} =>
                MetaValue(entry.postings[k].meta, r_config.ratio_metadata_key)
                  = r_entries[Min(including)].values[1].v

====
